---- MODULE Spec2Model ----
(***************************************************************************)
(* Model of src/src/charm.py: KubernetesControlPlaneCharm.reconcile and    *)
(* the steps it calls, run by several units that share the peer relation   *)
(* application data bag (peer) and the leader data store (legacy).         *)
(*                                                                         *)
(* One reconciliation pass is the action Reconcile(u): the whole handler,  *)
(* every step it calls included, each step an operator on the record of    *)
(* what the pass has read and written so far.  A pass runs on one unit at  *)
(* a time and the relation data, leadership and leader data it reads do    *)
(* not change while it runs (a hook sees one snapshot of the model);       *)
(* Return hands control back to the framework, and between passes the      *)
(* environment actions change the relations and leadership freely.         *)
(***************************************************************************)
EXTENDS Naturals, Sequences, FiniteSets

\* ---------------------------------------------------------------- bounds
NumUnits == 2
NumSecrets == 2
WriteCap == 3
MaxInputs == 2

Units == 1..NumUnits
NoUnit == NumUnits + 1

\* the characters a random draw may end in
SecretChars == <<"1", "2", "3", "4">>

\* ------------------------------------------------------- program literals
None == <<>>

PeerKeys == {"cluster-name", "service-account-key"}
ClusterTagKey == "cluster_tag"
LegacyKeyPath == "/root/cdk/serviceaccount.key"
LegacyKeys == {ClusterTagKey, LegacyKeyPath}

ApiserverSubject == "system:kube-apiserver"
LocalServer == "https://127.0.0.1:6443"
RootKubeconfig == "/root/.kube/config"
UbuntuKubeconfig == "/home/ubuntu/.kube/config"
PublicKubeconfig == "/home/ubuntu/config"
ControllerManagerKubeconfig == "/root/cdk/kubecontrollermanagerconfig"
SchedulerKubeconfig == "/root/cdk/kubeschedulerconfig"
KubeletKubeconfig == "/root/cdk/kubeconfig"
ProxyKubeconfig == "/root/cdk/kubeproxyconfig"

WaitingEtcd == [kind |-> "waiting", message |-> "Waiting for etcd"]
WaitingCertificates == [kind |-> "waiting", message |-> "Waiting for certificates"]
WaitingClusterName == [kind |-> "waiting", message |-> "Waiting for cluster name"]
WaitingClusterNameFromLeader ==
    [kind |-> "waiting", message |-> "Waiting for cluster name from leader"]
WaitingKeyFromLeader == [kind |-> "waiting", message |-> "Waiting for key from leader"]
BlockedCertificates ==
    [kind |-> "blocked", message |-> "Missing relation to certificate authority"]
BlockedEtcd == [kind |-> "blocked", message |-> "Missing relation to etcd"]
Active == [kind |-> "active", message |-> ""]

\* --------------------------------------------- values of the environment
\* what kubernetes_snaps.get_public_address() returns, and a common name a
\* server certificate was issued for before the address changed
PublicAddress == "10.0.0.10"
StaleAddress == "10.0.0.99"
ClientSubjects == {ApiserverSubject}
ServerCNs == {PublicAddress, StaleAddress}
CAValue == <<"ca-pem">>

\* the values the retired charm revision left in leader data
LegacyValue(k) ==
    IF k = ClusterTagKey THEN <<"kubernetes-", "l", "0">> ELSE <<"sa-key-", "l", "0">>

\* auth_webhook.token_generator(): a random string of letters and digits
Tokens == {<<"K", SecretChars[i]>> : i \in 1..NumSecrets}
\* kubernetes_snaps.create_service_account_key(): a fresh PEM key
FreshKeys == {<<"sa-key-", "g", SecretChars[i]>> : i \in 1..NumSecrets}
\* the random stream one create_kubeconfigs call draws its tokens from
Streams == 1..NumSecrets

VARIABLES
    leader,       \* the unit is_leader() is true on, or NoUnit
    certRel,      \* self.certificates.relation exists
    ca,           \* self.certificates.ca, None when not published
    clientCerts,  \* keys of self.certificates.client_certs_map
    serverCerts,  \* keys of self.certificates.server_certs_map
    etcdRel,      \* self.etcd.relation exists
    etcdReady,    \* self.etcd.is_ready
    peer,         \* peer_relation.data[self.app]
    legacy,       \* leader_data
    rootConfig,   \* per unit: os.path.exists("/root/.kube/config")
    cur,          \* the unit whose pass has just run, or NoUnit
    pc,           \* "idle", or "done" when reconcile has run and not yet returned
    entered,      \* the steps the pass entered, in order
    reports,      \* the status.add calls of the pass, in order
    log,          \* the calls to collaborators made by the pass, in order
    nameWrites,   \* number of assignments to peer["cluster-name"] so far
    leaderRan     \* some pass run by the leader has completed

vars == <<leader, certRel, ca, clientCerts, serverCerts, etcdRel, etcdReady,
          peer, legacy, rootConfig, cur, pc, entered, reports, log,
          nameWrites, leaderRan>>

certVars == <<certRel, ca, clientCerts, serverCerts>>
etcdVars == <<etcdRel, etcdReady>>
sharedVars == <<peer, legacy, nameWrites, leaderRan>>
passVars == <<cur, pc, entered, reports, log>>

Min(a, b) == IF a < b THEN a ELSE b
Range(f) == {f[i] : i \in DOMAIN f}

\* Python truthiness of an optional string: None and "" are both falsy
Truthy(v) == v # None

\* str.lower() on the characters a token or node name is made of
LowerChar(c) == IF c = "K" THEN "k" ELSE IF c = "N" THEN "n" ELSE c
Lower(w) == [i \in 1..Len(w) |-> LowerChar(w[i])]

\* self.unit.is_leader()
IsLeader(u) == leader = u

\* the leader data a deployment starts with: each entry set by the retired
\* charm revision, or never set
LegacyStores ==
    {[k \in LegacyKeys |-> IF k \in S THEN LegacyValue(k) ELSE None] : S \in SUBSET LegacyKeys}

\* ------------------------------------------------- what the pass reads
\* self.config / kubernetes_snaps / socket values of the unit
Hostname == "cp-0"
Fqdn == "cp-0.maas"
DnsDomain == "cluster.local"
\* config["extra_sans"] and config["service-cidr"], as the words and the
\* separators they are made of
ExtraSansConfig == <<"foo.example", " ", "10.0.0.10">>
ServiceCidrConfig == <<"10.152.183.0/24", ",", "fd98::/108">>
BindAddresses == <<"10.0.0.10", "192.168.0.5">>
IngressAddresses == <<"10.0.0.10", "fd00::1">>
EtcdCreds == [client_ca |-> "etcd-ca", client_cert |-> "etcd-cert", client_key |-> "etcd-key"]

\* str.split(): the words between the separators
Split(text, sep) == SelectSeq(text, LAMBDA w : w # sep)

\* ipaddress .exploded: an IPv6 address written out in full
Exploded(addr) ==
    IF addr = "fd00::1" THEN "fd00:0000:0000:0000:0000:0000:0000:0001" ELSE addr

\* kubernetes_snaps.get_kubernetes_service_addresses: the first address of
\* each service CIDR
ServiceAddress(cidr) ==
    IF cidr = "10.152.183.0/24" THEN "10.152.183.1"
    ELSE IF cidr = "fd98::/108" THEN "fd98::1"
    ELSE cidr
ServiceAddresses(cidrs) == [i \in 1..Len(cidrs) |-> ServiceAddress(cidrs[i])]

\* self.certificates.client_certs_map.get / server_certs_map.get: the
\* (cert, key) pair issued for the name, or None
CertOf(issued, name) ==
    IF name \in issued THEN <<"cert:" \o name, "key:" \o name>> ELSE None

\* ------------------------------------------------------------ the steps
\* The record s a step takes and returns: the peer data and leader data as
\* the pass sees and writes them, whether /root/.kube/config exists on the
\* unit, and what the pass has entered, reported and called so far.
Enter(s, step) == [s EXCEPT !.entered = Append(@, step)]
\* status.add(...)
Add(s, st) == [s EXCEPT !.reports = Append(@, st)]
\* a call to kubernetes_snaps, auth_webhook or a relation object
Call(s, c) == [s EXCEPT !.log = Append(@, c)]

\* reconcile, lines 202-203
install(s0) ==
    LET s == Enter(s0, "install") IN
    Call(Call(s, [call |-> "install", control_plane |-> TRUE]),
         [call |-> "configure_services_restart_always", control_plane |-> TRUE])

\* the list request_certificates builds from the common name, the bind and
\* ingress addresses and the two configuration texts, lines 220-251
SansOf(common_name, bind_addrs, ingress_addresses, service_cidr, extra_sans) ==
    << common_name, "127.0.0.1", Hostname, Fqdn, "kubernetes",
       "kubernetes." \o DnsDomain, "kubernetes.default", "kubernetes.default.svc",
       "kubernetes.default.svc." \o DnsDomain >>
    \o bind_addrs
    \o [i \in 1..Len(ingress_addresses) |-> Exploded(ingress_addresses[i])]
    \o ServiceAddresses(Split(service_cidr, ","))
    \o Split(extra_sans, " ")

\* list(set(sans)), line 252: every element of the list once, in the order
\* the set gives them (no caller depends on that order)
RECURSIVE ListOfSet(_)
ListOfSet(S) ==
    IF S = {} THEN <<>>
    ELSE LET x == CHOOSE y \in S : TRUE IN <<x>> \o ListOfSet(S \ {x})
\* list(sans) in the place of list(set(sans))
ListKeep(sans) == sans
ListSet(sans) == ListOfSet(Range(sans))

\* the SAN list of the unit, before and after list(set(..))
SansList(common_name) ==
    SansOf(common_name, BindAddresses, IngressAddresses, ServiceCidrConfig,
           ExtraSansConfig)
Sans(common_name) == ListSet(SansList(common_name))

\* the values the unit's address gives
RequestedSans == Sans(PublicAddress)
PublicServer == "https://" \o PublicAddress \o ":6443"

\* request_certificates asking only while a certificate is still to come
request_certificates_once(s0) ==
    LET s == Enter(s0, "request_certificates") IN
    IF ~certRel THEN Add(s, BlockedCertificates)
    ELSE IF ApiserverSubject \in clientCerts /\ PublicAddress \in serverCerts THEN s
    ELSE Call(Call(s, [call |-> "request_client_cert", cn |-> ApiserverSubject]),
              [call |-> "request_server_cert", cn |-> PublicAddress,
               sans |-> RequestedSans])

request_certificates(s0) ==
    LET s == Enter(s0, "request_certificates") IN
    IF ~certRel THEN Add(s, BlockedCertificates)
    ELSE Call(Call(s, [call |-> "request_client_cert", cn |-> ApiserverSubject]),
              [call |-> "request_server_cert", cn |-> PublicAddress,
               sans |-> RequestedSans])

\* write_certificates returning without a word when something is missing
write_certificates_silent(s0) ==
    LET s == Enter(s0, "write_certificates")
        common_name == PublicAddress
        client_cert == CertOf(clientCerts, ApiserverSubject)
        server_cert == CertOf(serverCerts, common_name)
    IN  IF ~Truthy(ca) \/ ~Truthy(client_cert) \/ ~Truthy(server_cert)
        THEN s
        ELSE Call(s, [call |-> "write_certificates", ca |-> ca,
                      client_cert |-> client_cert[1], client_key |-> client_cert[2],
                      server_cert |-> server_cert[1], server_key |-> server_cert[2]])

\* write_certificates taking whichever server certificate was issued
write_certificates_any_server(s0) ==
    LET s == Enter(s0, "write_certificates")
        client_cert == CertOf(clientCerts, ApiserverSubject)
        server_cert == IF serverCerts = {} THEN None
                       ELSE CertOf(serverCerts, CHOOSE name \in serverCerts : TRUE)
    IN  IF ~Truthy(ca) \/ ~Truthy(client_cert) \/ ~Truthy(server_cert)
        THEN Add(s, WaitingCertificates)
        ELSE Call(s, [call |-> "write_certificates", ca |-> ca,
                      client_cert |-> client_cert[1], client_key |-> client_cert[2],
                      server_cert |-> server_cert[1], server_key |-> server_cert[2]])

write_certificates(s0) ==
    LET s == Enter(s0, "write_certificates")
        common_name == PublicAddress
        client_cert == CertOf(clientCerts, ApiserverSubject)
        server_cert == CertOf(serverCerts, common_name)
    IN  IF ~Truthy(ca) \/ ~Truthy(client_cert) \/ ~Truthy(server_cert)
        THEN Add(s, WaitingCertificates)
        ELSE Call(s, [call |-> "write_certificates", ca |-> ca,
                      client_cert |-> client_cert[1], client_key |-> client_cert[2],
                      server_cert |-> server_cert[1], server_key |-> server_cert[2]])

\* write_etcd_client_credentials with one answer to every absence
write_etcd_client_credentials_one_gate(s0) ==
    LET s == Enter(s0, "write_etcd_client_credentials") IN
    IF ~etcdRel \/ ~etcdReady THEN Add(s, BlockedEtcd)
    ELSE Call(s, [call |-> "write_etcd_client_credentials", ca |-> EtcdCreds.client_ca,
                  cert |-> EtcdCreds.client_cert, key |-> EtcdCreds.client_key])

write_etcd_client_credentials(s0) ==
    LET s == Enter(s0, "write_etcd_client_credentials") IN
    IF ~etcdRel THEN Add(s, BlockedEtcd)
    ELSE IF ~etcdReady THEN Add(s, WaitingEtcd)
    ELSE Call(s, [call |-> "write_etcd_client_credentials", ca |-> EtcdCreds.client_ca,
                  cert |-> EtcdCreds.client_cert, key |-> EtcdCreds.client_key])

\* peer_relation.data[self.app][k] = v
SetPeer(s, k, v) ==
    [s EXCEPT !.peer[k] = v,
              !.writes = IF k = "cluster-name" THEN Min(@ + 1, WriteCap) ELSE @]

\* leader_data.set(k, "")
ClearLegacy(s, k) == [s EXCEPT !.legacy[k] = None]

\* the migration clearing the leader data entry before it reads it
migrate_service_account_key_clear_first(s) ==
    LET cleared == ClearLegacy(s, LegacyKeyPath)
        key == cleared.legacy[LegacyKeyPath]
    IN  IF Truthy(s.legacy[LegacyKeyPath])
        THEN SetPeer(cleared, "service-account-key", key)
        ELSE s

\* write_service_account_key, lines 269-274: the old key found in leader
\* data moves to the peer data
migrate_service_account_key(s) ==
    LET key == s.legacy[LegacyKeyPath] IN
    IF Truthy(key)
    THEN ClearLegacy(SetPeer(s, "service-account-key", key), LegacyKeyPath)
    ELSE s

\* write_service_account_key with the leader skipping the key it finds
write_service_account_key_regenerate(u, s0, fresh) ==
    LET s == Enter(s0, "write_service_account_key")
        key == s.peer["service-account-key"]
    IN  IF Truthy(key) /\ ~IsLeader(u)
        THEN Call(s, [call |-> "write_service_account_key", key |-> key])
        ELSE IF ~IsLeader(u) THEN Add(s, WaitingKeyFromLeader)
        ELSE IF Truthy(s.legacy[LegacyKeyPath]) THEN migrate_service_account_key(s)
        ELSE SetPeer(Call(s, [call |-> "create_service_account_key", ret |-> fresh]),
                     "service-account-key", fresh)

\* write_service_account_key returning on a key it finds without writing it
write_service_account_key_no_persist(u, s0, fresh) ==
    LET s == Enter(s0, "write_service_account_key")
        key == s.peer["service-account-key"]
    IN  IF Truthy(key) THEN s
        ELSE IF ~IsLeader(u) THEN Add(s, WaitingKeyFromLeader)
        ELSE IF Truthy(s.legacy[LegacyKeyPath]) THEN migrate_service_account_key(s)
        ELSE SetPeer(Call(s, [call |-> "create_service_account_key", ret |-> fresh]),
                     "service-account-key", fresh)

\* fresh is what kubernetes_snaps.create_service_account_key() returns
write_service_account_key(u, s0, fresh) ==
    LET s == Enter(s0, "write_service_account_key")
        key == s.peer["service-account-key"]
    IN  IF Truthy(key) THEN Call(s, [call |-> "write_service_account_key", key |-> key])
        ELSE IF ~IsLeader(u) THEN Add(s, WaitingKeyFromLeader)
        ELSE IF Truthy(s.legacy[LegacyKeyPath]) THEN migrate_service_account_key(s)
        ELSE SetPeer(Call(s, [call |-> "create_service_account_key", ret |-> fresh]),
                     "service-account-key", fresh)

configure_auth_webhook(s0) ==
    Call(Enter(s0, "configure_auth_webhook"),
         [call |-> "auth_webhook.configure", custom_authn_endpoint |-> ""])

\* configure_apiserver without the is_ready guard
configure_apiserver_unguarded(s0) ==
    LET s == Enter(s0, "configure_apiserver") IN
    Call(s, [call |-> "configure_apiserver",
             advertise_address |-> Exploded(IngressAddresses[1]),
             etcd_connection_string |-> "https://etcd:2379",
             service_cidr |-> ServiceCidrConfig])

configure_apiserver(s0) ==
    LET s == Enter(s0, "configure_apiserver") IN
    IF ~etcdReady THEN Add(s, WaitingEtcd)
    ELSE Call(s, [call |-> "configure_apiserver",
                  advertise_address |-> Exploded(IngressAddresses[1]),
                  etcd_connection_string |-> "https://etcd:2379",
                  service_cidr |-> ServiceCidrConfig])

\* self.unit.name and kubernetes_snaps.get_node_name() on unit u
UnitName(u) == "kubernetes-control-plane/" \o SecretChars[u]
NodeName(u) == <<"N", "ode-", SecretChars[u]>>

\* auth_webhook.token_generator() and auth_webhook.create_token(...): the
\* n-th draw from the random stream e of the call
GeneratedToken(e, n) ==
    [uid |-> "", username |-> <<>>, groups |-> {}, secret |-> <<e, n>>]
CreateToken(e, n, uid, username, groups) ==
    [uid |-> uid, username |-> username, groups |-> groups, secret |-> <<e, n>>]

\* kubernetes_snaps.create_kubeconfig(dest, ca=, server=, token=, user=)
Kubeconfig(dest, cacert, server, token, user) ==
    [call |-> "create_kubeconfig", dest |-> dest, ca |-> cacert, server |-> server,
     token |-> token, user |-> user]

\* token=auth_webhook.create_token(...): the token is minted and registered
\* with the webhook before the call it is an argument of
Mint(s, token) == Call(s, [call |-> "create_token", ret |-> token])

\* create_kubeconfigs, lines 100-110: the bootstrap client config, written
\* with a token that is generated and registered nowhere
BootstrapConfig(s, e) ==
    LET token == GeneratedToken(e, 0) IN
    [Call(Call(s, [call |-> "token_generator", ret |-> token]),
          Kubeconfig(RootKubeconfig, ca, LocalServer, token, "admin"))
     EXCEPT !.root = TRUE]

\* the bootstrap client config written for a user of its own
BootstrapConfigOwnUser(s, e) ==
    LET token == GeneratedToken(e, 0) IN
    [Call(Call(s, [call |-> "token_generator", ret |-> token]),
          Kubeconfig(RootKubeconfig, ca, LocalServer, token, "bootstrap"))
     EXCEPT !.root = TRUE]

\* the destinations of the loop of line 119
LocalAdminDests == <<RootKubeconfig, UbuntuKubeconfig>>

\* for dest in dests: kubernetes_snaps.create_kubeconfig(dest, ...)
RECURSIVE WriteEach(_, _, _, _, _)
WriteEach(s, dests, server, token, user) ==
    IF dests = <<>> THEN s
    ELSE WriteEach(Call(s, Kubeconfig(Head(dests), ca, server, token, user)),
                   Tail(dests), server, token, user)

\* create_kubeconfigs, lines 112-134: one admin token, written to the local
\* admin destinations and to the one for the public endpoint
AdminConfigs(s, e, dests) ==
    LET admin_token == CreateToken(e, 1, "admin", <<"admin">>, {"system:masters"})
        s1 == WriteEach(Mint(s, admin_token), dests, LocalServer, admin_token, "admin")
    IN  Call(s1, Kubeconfig(PublicKubeconfig, ca, PublicServer, admin_token, "admin"))

\* create_kubeconfigs, lines 136-176: a token and a file for each component
ComponentConfigs(u, s, e) ==
    LET local_server == LocalServer
        node_name == NodeName(u)
        cm_token == CreateToken(e, 2, "kube-controller-manager",
                                <<"system:kube-controller-manager">>, {})
        s1 == Call(Mint(s, cm_token),
                   Kubeconfig(ControllerManagerKubeconfig, ca, local_server, cm_token,
                              "kube-controller-manager"))
        sched_token == CreateToken(e, 3, "system:kube-scheduler",
                                   <<"system:kube-scheduler">>, {})
        s2 == Call(Mint(s1, sched_token),
                   Kubeconfig(SchedulerKubeconfig, ca, local_server, sched_token,
                              "kube-scheduler"))
        kubelet_token == CreateToken(e, 4, UnitName(u),
                                     <<"system:node:">> \o Lower(node_name),
                                     {"system:nodes"})
        s3 == Call(Mint(s2, kubelet_token),
                   Kubeconfig(KubeletKubeconfig, ca, local_server, kubelet_token, "kubelet"))
        proxy_token == CreateToken(e, 5, "kube-proxy", <<"system:kube-proxy">>, {})
    IN  Call(Mint(s3, proxy_token),
             Kubeconfig(ProxyKubeconfig, ca, local_server, proxy_token, "kube-proxy"))

\* create_kubeconfigs writing the bootstrap config whether or not the file
\* is there
create_kubeconfigs_rebootstrap(u, s0, e) ==
    LET s == Enter(s0, "create_kubeconfigs") IN
    IF ~Truthy(ca) THEN Add(s, WaitingCertificates)
    ELSE IF ~etcdReady THEN Add(s, WaitingEtcd)
    ELSE ComponentConfigs(u, AdminConfigs(BootstrapConfig(s, e), e, LocalAdminDests), e)

\* create_kubeconfigs without the etcd gate
create_kubeconfigs_no_etcd_gate(u, s0, e) ==
    LET s == Enter(s0, "create_kubeconfigs")
        s1 == IF ~s.root THEN BootstrapConfig(s, e) ELSE s
    IN  IF ~Truthy(ca) THEN Add(s, WaitingCertificates)
        ELSE ComponentConfigs(u, AdminConfigs(s1, e, LocalAdminDests), e)

\* create_kubeconfigs leaving a bootstrap config it has just written, for a
\* user of its own, in place until the next pass
create_kubeconfigs_keep_bootstrap(u, s0, e) ==
    LET s == Enter(s0, "create_kubeconfigs")
        s1 == IF ~s.root
              THEN AdminConfigs(BootstrapConfigOwnUser(s, e), e, <<UbuntuKubeconfig>>)
              ELSE AdminConfigs(s, e, LocalAdminDests)
    IN  IF ~Truthy(ca) THEN Add(s, WaitingCertificates)
        ELSE IF ~etcdReady THEN Add(s, WaitingEtcd)
        ELSE ComponentConfigs(u, s1, e)

create_kubeconfigs(u, s0, e) ==
    LET s == Enter(s0, "create_kubeconfigs")
        s1 == IF ~s.root THEN BootstrapConfig(s, e) ELSE s
    IN  IF ~Truthy(ca) THEN Add(s, WaitingCertificates)
        ELSE IF ~etcdReady THEN Add(s, WaitingEtcd)
        ELSE ComponentConfigs(u, AdminConfigs(s1, e, LocalAdminDests), e)

\* the migration with the leader_data.set(.., "") left out
migrate_cluster_name_keep(s) ==
    LET cluster_name == s.legacy[ClusterTagKey] IN
    IF Truthy(cluster_name) THEN SetPeer(s, "cluster-name", cluster_name) ELSE s

\* get_cluster_name, lines 189-194: the old cluster tag found in leader data
\* moves to the peer data
migrate_cluster_name(s) ==
    LET cluster_name == s.legacy[ClusterTagKey] IN
    IF Truthy(cluster_name)
    THEN ClearLegacy(SetPeer(s, "cluster-name", cluster_name), ClusterTagKey)
    ELSE s

\* get_cluster_name with the leader looking into leader data before the
\* peer data
get_cluster_name_legacy_first(u, s, token) ==
    LET cluster_name == s.peer["cluster-name"] IN
    IF IsLeader(u) /\ Truthy(s.legacy[ClusterTagKey])
    THEN [ret |-> s.legacy[ClusterTagKey], s |-> migrate_cluster_name(s)]
    ELSE IF Truthy(cluster_name) THEN [ret |-> cluster_name, s |-> s]
    ELSE IF ~IsLeader(u) THEN [ret |-> None, s |-> Add(s, WaitingClusterNameFromLeader)]
    ELSE LET generated == <<"kubernetes-">> \o Lower(token)
             s1 == Call(s, [call |-> "token_generator", ret |-> token])
         IN  [ret |-> generated, s |-> SetPeer(s1, "cluster-name", generated)]

\* get_cluster_name without the is_leader() guard
get_cluster_name_any_unit(u, s, token) ==
    LET cluster_name == s.peer["cluster-name"] IN
    IF Truthy(cluster_name) THEN [ret |-> cluster_name, s |-> s]
    ELSE IF Truthy(s.legacy[ClusterTagKey])
         THEN [ret |-> s.legacy[ClusterTagKey], s |-> migrate_cluster_name(s)]
    ELSE LET generated == <<"kubernetes-">> \o Lower(token)
             s1 == Call(s, [call |-> "token_generator", ret |-> token])
         IN  [ret |-> generated, s |-> SetPeer(s1, "cluster-name", generated)]

\* get_cluster_name with the fast path taken by the other units only
get_cluster_name_regenerate(u, s, token) ==
    LET cluster_name == s.peer["cluster-name"] IN
    IF Truthy(cluster_name) /\ ~IsLeader(u) THEN [ret |-> cluster_name, s |-> s]
    ELSE IF ~IsLeader(u) THEN [ret |-> None, s |-> Add(s, WaitingClusterNameFromLeader)]
    ELSE IF Truthy(s.legacy[ClusterTagKey])
         THEN [ret |-> s.legacy[ClusterTagKey], s |-> migrate_cluster_name(s)]
    ELSE LET generated == <<"kubernetes-">> \o Lower(token)
             s1 == Call(s, [call |-> "token_generator", ret |-> token])
         IN  [ret |-> generated, s |-> SetPeer(s1, "cluster-name", generated)]

\* [ret |-> what get_cluster_name returns, s |-> the pass after the call];
\* token is what auth_webhook.token_generator() returns
get_cluster_name(u, s, token) ==
    LET cluster_name == s.peer["cluster-name"] IN
    IF Truthy(cluster_name) THEN [ret |-> cluster_name, s |-> s]
    ELSE IF ~IsLeader(u) THEN [ret |-> None, s |-> Add(s, WaitingClusterNameFromLeader)]
    ELSE IF Truthy(s.legacy[ClusterTagKey])
         THEN [ret |-> s.legacy[ClusterTagKey], s |-> migrate_cluster_name(s)]
    ELSE LET generated == <<"kubernetes-">> \o Lower(token)
             s1 == Call(s, [call |-> "token_generator", ret |-> token])
         IN  [ret |-> generated, s |-> SetPeer(s1, "cluster-name", generated)]

configure_controller_manager(u, s0, token) ==
    LET r == get_cluster_name(u, Enter(s0, "configure_controller_manager"), token)
        cluster_name == r.ret
    IN  IF ~Truthy(cluster_name) THEN Add(r.s, WaitingClusterName)
        ELSE Call(r.s, [call |-> "configure_controller_manager",
                        cluster_name |-> cluster_name,
                        kubeconfig |-> ControllerManagerKubeconfig,
                        service_cidr |-> ServiceCidrConfig])

configure_scheduler(s0) ==
    Call(Enter(s0, "configure_scheduler"),
         [call |-> "configure_scheduler", kubeconfig |-> SchedulerKubeconfig])

\* the order in which reconcile calls the steps
StepOrder ==
    << "install", "request_certificates", "write_certificates",
       "write_etcd_client_credentials", "write_service_account_key",
       "configure_auth_webhook", "configure_apiserver", "create_kubeconfigs",
       "configure_controller_manager", "configure_scheduler" >>

\* reconcile asking for the certificates after everything else
reconcile_request_last(u, s0) ==
    LET s1 == install(s0)
        s3 == write_certificates(s1)
        s4 == write_etcd_client_credentials(s3)
        S5 == {write_service_account_key(u, s4, fresh) : fresh \in FreshKeys}
        S7 == {configure_apiserver(configure_auth_webhook(s5)) : s5 \in S5}
        S8 == {create_kubeconfigs(u, s7, e) : s7 \in S7, e \in Streams}
        S9 == {configure_controller_manager(u, s8, token) : s8 \in S8, token \in Tokens}
    IN  {request_certificates(configure_scheduler(s9)) : s9 \in S9}

\* reconcile giving up at the first step that adds a status
reconcile_abort(u, s0) ==
    LET s1 == install(s0)
        s2 == request_certificates(s1)
        s3 == write_certificates(s2)
        s4 == write_etcd_client_credentials(s3)
        S5 == {write_service_account_key(u, s4, fresh) : fresh \in FreshKeys}
        S7 == {configure_apiserver(configure_auth_webhook(s5)) : s5 \in S5}
        S8 == {create_kubeconfigs(u, s7, e) : s7 \in S7, e \in Streams}
        S9 == {configure_controller_manager(u, s8, token) : s8 \in S8, token \in Tokens}
    IN  IF s2.reports # <<>> THEN {s2}
        ELSE IF s3.reports # <<>> THEN {s3}
        ELSE IF s4.reports # <<>> THEN {s4}
        ELSE {configure_scheduler(s9) : s9 \in S9}

\* reconcile writing the etcd client credentials after everything else
reconcile_etcd_credentials_last(u, s0) ==
    LET s1 == install(s0)
        s2 == request_certificates(s1)
        s3 == write_certificates(s2)
        S5 == {write_service_account_key(u, s3, fresh) : fresh \in FreshKeys}
        S7 == {configure_apiserver(configure_auth_webhook(s5)) : s5 \in S5}
        S8 == {create_kubeconfigs(u, s7, e) : s7 \in S7, e \in Streams}
        S9 == {configure_controller_manager(u, s8, token) : s8 \in S8, token \in Tokens}
    IN  {write_etcd_client_credentials(configure_scheduler(s9)) : s9 \in S9}

\* the pass on unit u from the state s0: the set of its outcomes, one for
\* each value its random draws can give
reconcile(u, s0) ==
    LET s1 == install(s0)
        s2 == request_certificates(s1)
        s3 == write_certificates(s2)
        s4 == write_etcd_client_credentials(s3)
        S5 == {write_service_account_key(u, s4, fresh) : fresh \in FreshKeys}
        S7 == {configure_apiserver(configure_auth_webhook(s5)) : s5 \in S5}
        S8 == {create_kubeconfigs(u, s7, e) : s7 \in S7, e \in Streams}
        S9 == {configure_controller_manager(u, s8, token) : s8 \in S8, token \in Tokens}
    IN  {configure_scheduler(s9) : s9 \in S9}

Init ==
    /\ leader \in Units \cup {NoUnit}
    /\ certRel = FALSE
    /\ ca = None
    /\ clientCerts = {}
    /\ serverCerts = {}
    /\ etcdRel = FALSE
    /\ etcdReady = FALSE
    /\ peer = [k \in PeerKeys |-> None]
    /\ legacy \in LegacyStores
    /\ rootConfig \in [Units -> BOOLEAN]
    /\ cur = NoUnit
    /\ pc = "idle"
    /\ entered = <<>>
    /\ reports = <<>>
    /\ log = <<>>
    /\ nameWrites = 0
    /\ leaderRan = FALSE

\* ------------------------------------------------------------- actions
\* what a pass that starts on unit u now starts from: the shared data as
\* it is, a fresh status context, nothing entered or called yet
PassState(u) ==
    [peer |-> peer, legacy |-> legacy, root |-> rootConfig[u],
     entered |-> <<>>, reports |-> <<>>, log |-> <<>>, writes |-> nameWrites]

\* An event fires on unit u and the Reconciler calls reconcile.
Reconcile(u) ==
    /\ pc = "idle"
    /\ \E s \in reconcile(u, PassState(u)) :
         /\ peer' = s.peer
         /\ legacy' = s.legacy
         /\ rootConfig' = [rootConfig EXCEPT ![u] = s.root]
         /\ entered' = s.entered
         /\ reports' = s.reports
         /\ log' = s.log
         /\ nameWrites' = s.writes
    /\ cur' = u
    /\ pc' = "done"
    /\ leaderRan' = (leaderRan \/ IsLeader(u))
    /\ UNCHANGED <<leader, certVars, etcdVars>>

\* the handler returns to the framework
Return ==
    /\ pc = "done"
    /\ pc' = "idle"
    /\ cur' = NoUnit
    /\ entered' = <<>>
    /\ reports' = <<>>
    /\ log' = <<>>
    /\ UNCHANGED <<leader, certVars, etcdVars, sharedVars, rootConfig>>

\* leadership moves to unit l, or is vacant for a while
SetLeader(l) ==
    /\ pc = "idle"
    /\ l # leader
    /\ leader' = l
    /\ UNCHANGED <<certVars, etcdVars, sharedVars, rootConfig, passVars>>

\* the certificates relation is joined
CertRelationJoined ==
    /\ pc = "idle"
    /\ ~certRel
    /\ certRel' = TRUE
    /\ UNCHANGED <<leader, ca, clientCerts, serverCerts, etcdVars, sharedVars,
                   rootConfig, passVars>>

\* the certificates relation is removed, and its data with it
CertRelationBroken ==
    /\ pc = "idle"
    /\ certRel
    /\ certRel' = FALSE
    /\ ca' = None
    /\ clientCerts' = {}
    /\ serverCerts' = {}
    /\ UNCHANGED <<leader, etcdVars, sharedVars, rootConfig, passVars>>

\* the authority publishes its CA certificate
PublishCA ==
    /\ pc = "idle"
    /\ certRel
    /\ ca = None
    /\ ca' = CAValue
    /\ UNCHANGED <<leader, certRel, clientCerts, serverCerts, etcdVars, sharedVars,
                   rootConfig, passVars>>

\* the authority issues a client certificate for a subject
IssueClientCert(name) ==
    /\ pc = "idle"
    /\ certRel
    /\ name \notin clientCerts
    /\ clientCerts' = clientCerts \cup {name}
    /\ UNCHANGED <<leader, certRel, ca, serverCerts, etcdVars, sharedVars,
                   rootConfig, passVars>>

\* the authority issues a server certificate for a common name
IssueServerCert(name) ==
    /\ pc = "idle"
    /\ certRel
    /\ name \notin serverCerts
    /\ serverCerts' = serverCerts \cup {name}
    /\ UNCHANGED <<leader, certRel, ca, clientCerts, etcdVars, sharedVars,
                   rootConfig, passVars>>

\* the etcd relation is joined; its data is not complete yet
EtcdRelationJoined ==
    /\ pc = "idle"
    /\ ~etcdRel
    /\ etcdRel' = TRUE
    /\ UNCHANGED <<leader, certVars, etcdReady, sharedVars, rootConfig, passVars>>

\* etcd publishes its connection string and client credentials
EtcdBecomesReady ==
    /\ pc = "idle"
    /\ etcdRel
    /\ ~etcdReady
    /\ etcdReady' = TRUE
    /\ UNCHANGED <<leader, certVars, etcdRel, sharedVars, rootConfig, passVars>>

\* the etcd relation is removed
EtcdRelationBroken ==
    /\ pc = "idle"
    /\ etcdRel
    /\ etcdRel' = FALSE
    /\ etcdReady' = FALSE
    /\ UNCHANGED <<leader, certVars, sharedVars, rootConfig, passVars>>

\* a unit still running the retired charm revision sets a leader data entry
\* again
LegacyLeaderSet(k) ==
    /\ pc = "idle"
    /\ legacy[k] = None
    /\ legacy' = [legacy EXCEPT ![k] = LegacyValue(k)]
    /\ UNCHANGED <<leader, certVars, etcdVars, peer, nameWrites, leaderRan,
                   rootConfig, passVars>>

Environment ==
    \/ \E l \in Units \cup {NoUnit} : SetLeader(l)
    \/ CertRelationJoined
    \/ CertRelationBroken
    \/ PublishCA
    \/ \E name \in ClientSubjects : IssueClientCert(name)
    \/ \E name \in ServerCNs : IssueServerCert(name)
    \/ EtcdRelationJoined
    \/ EtcdBecomesReady
    \/ EtcdRelationBroken
    \/ \E k \in LegacyKeys : LegacyLeaderSet(k)

Next ==
    \/ \E u \in Units : Reconcile(u)
    \/ Return
    \/ Environment

Spec == Init /\ [][Next]_vars

TypeOK ==
    /\ leader \in Units \cup {NoUnit}
    /\ pc \in {"idle", "done"}
    /\ nameWrites \in 0..WriteCap

\* ------------------------------------------------ reading a finished pass
PeerName == peer["cluster-name"]
PeerKey == peer["service-account-key"]

\* the calls of the pass to one collaborator function
Calls(name) == SelectSeq(log, LAMBDA c : c.call = name)
Reported(st) == \E i \in 1..Len(reports) : reports[i] = st

\* the unit status the status context leaves when the pass ends: the last
\* status added, Active when none was
Visible == IF reports = <<>> THEN Active ELSE reports[Len(reports)]

PassBegins == pc = "idle" /\ pc' = "done"
PassDone(u) == pc = "done" /\ cur = u

\* the certificates write_certificates needs are all there
CertificatesPresent ==
    /\ Truthy(ca)
    /\ ApiserverSubject \in clientCerts
    /\ PublicAddress \in serverCerts

\* ----------------------------------------------------------------- C1
\* C1: once peer["cluster-name"] is non-empty, no step of any unit changes
\* it, also not a pass that runs while leader data still holds another tag.
IdentityStable ==
    [][Truthy(PeerName) => peer'["cluster-name"] = PeerName]_vars

\* a leader's pass has run with the name set and another tag in leader data
IdentityStableWitness ==
    /\ PassDone(leader)
    /\ Truthy(PeerName)
    /\ Truthy(legacy[ClusterTagKey])
    /\ legacy[ClusterTagKey] # PeerName
    /\ Len(Calls("configure_controller_manager")) = 1

\* ----------------------------------------------------------------- C2
\* C2: a pass on a unit that is not the leader leaves the peer data and the
\* leader data as they were; with no cluster name in the peer data,
\* get_cluster_name returns None there having only added the Waiting
\* status, and the pass configures no controller-manager.
NonLeaderNeverWrites ==
    [][(PassBegins /\ ~IsLeader(cur'))
         => /\ peer' = peer
            /\ legacy' = legacy
            /\ nameWrites' = nameWrites
            /\ ~Truthy(PeerName)
                 => /\ \A token \in Tokens :
                         get_cluster_name(cur', PassState(cur'), token)
                           = [ret |-> None,
                              s |-> Add(PassState(cur'), WaitingClusterNameFromLeader)]
                    /\ Len(reports') >= 2
                    /\ SubSeq(reports', Len(reports') - 1, Len(reports'))
                         = <<WaitingClusterNameFromLeader, WaitingClusterName>>
                    /\ \A i \in 1..Len(log') : log'[i].call # "configure_controller_manager"
            /\ ~Truthy(PeerKey) => \E i \in 1..Len(reports') : reports'[i] = WaitingKeyFromLeader
      ]_vars

\* a non-leader has run a pass with nothing in the peer data while leader
\* data held both old values
NonLeaderNeverWritesWitness ==
    /\ pc = "done"
    /\ ~IsLeader(cur)
    /\ ~Truthy(PeerName)
    /\ ~Truthy(PeerKey)
    /\ Truthy(legacy[ClusterTagKey])
    /\ Truthy(legacy[LegacyKeyPath])

\* ----------------------------------------------------------------- C3
\* C3: peer["cluster-name"] is assigned at most once, it is set exactly when
\* it has been assigned, and it is set once a pass of a leader has completed.
OneIdentityCommitted ==
    /\ nameWrites <= 1
    /\ Truthy(PeerName) <=> nameWrites = 1
    /\ leaderRan => Truthy(PeerName)

\* a leader completes a pass without any relation, the name being set
OneIdentityCommittedWitness ==
    /\ PassDone(leader)
    /\ leaderRan
    /\ nameWrites = 1
    /\ ~certRel
    /\ ~etcdRel

\* ----------------------------------------------------------------- C4
\* C4: once peer["service-account-key"] is non-empty no step changes it, and
\* write_service_account_key then only calls the key writer with it: the
\* peer data and leader data it returns are the ones it was given, and it
\* adds no status.
KeyStable ==
    [][Truthy(PeerKey)
         => /\ peer'["service-account-key"] = PeerKey
            /\ \A u \in Units, fresh \in FreshKeys :
                 LET s == PassState(u)
                     r == write_service_account_key(u, s, fresh)
                 IN  /\ r.peer = s.peer
                     /\ r.legacy = s.legacy
                     /\ r.reports = s.reports
                     /\ r.log = <<[call |-> "write_service_account_key", key |-> PeerKey]>>
            /\ PassBegins
                 => /\ legacy'[LegacyKeyPath] = legacy[LegacyKeyPath]
                    /\ Calls("write_service_account_key")'
                         = <<[call |-> "write_service_account_key", key |-> PeerKey]>>
      ]_vars

\* a leader's pass has written the key it found while leader data still
\* held an old key
KeyStableWitness ==
    /\ PassDone(leader)
    /\ Truthy(PeerKey)
    /\ Truthy(legacy[LegacyKeyPath])
    /\ legacy[LegacyKeyPath] # PeerKey
    /\ Len(Calls("write_service_account_key")) = 1

\* ----------------------------------------------------------------- C5
\* C5: a pass after which the key is in the peer data (found there, migrated
\* or generated by the pass) has called the key writer with that key.
KeyPersistedWhenKnown ==
    (pc = "done" /\ Truthy(PeerKey))
      => Calls("write_service_account_key")
           = <<[call |-> "write_service_account_key", key |-> PeerKey]>>

\* ----------------------------------------------------------------- C6
\* C6: for both migrated entries, migrating twice gives the peer data and
\* leader data that migrating once gives, with the leader data entry empty;
\* migrating when the entry is empty changes nothing.
MigrationIdempotent ==
    \A u \in Units :
      LET s == PassState(u)
          n1 == migrate_cluster_name(s)
          n2 == migrate_cluster_name(n1)
          k1 == migrate_service_account_key(s)
          k2 == migrate_service_account_key(k1)
      IN  /\ n2.peer = n1.peer /\ n2.legacy = n1.legacy
          /\ n1.legacy[ClusterTagKey] = None
          /\ n1.legacy[LegacyKeyPath] = s.legacy[LegacyKeyPath]
          /\ ~Truthy(s.legacy[ClusterTagKey]) => n1 = s
          /\ Truthy(s.legacy[ClusterTagKey]) => n1.peer["cluster-name"] = s.legacy[ClusterTagKey]
          /\ k2.peer = k1.peer /\ k2.legacy = k1.legacy
          /\ k1.legacy[LegacyKeyPath] = None
          /\ k1.legacy[ClusterTagKey] = s.legacy[ClusterTagKey]
          /\ ~Truthy(s.legacy[LegacyKeyPath]) => k1 = s
          /\ Truthy(s.legacy[LegacyKeyPath])
               => k1.peer["service-account-key"] = s.legacy[LegacyKeyPath]

\* a leader's pass has migrated both entries
MigrationIdempotentWitness ==
    /\ PassDone(leader)
    /\ PeerName = LegacyValue(ClusterTagKey)
    /\ PeerKey = LegacyValue(LegacyKeyPath)
    /\ legacy = [k \in LegacyKeys |-> None]
    /\ nameWrites = 1

\* ----------------------------------------------------------------- C7
\* C7: a finished pass has called the certificate writer exactly when the
\* CA, the client certificate of system:kube-apiserver and the server
\* certificate of the public address were all there, once and with all five
\* values; otherwise it has not called it and has added Waiting for
\* certificates.
CertificateWriteGated ==
    pc = "done"
      => IF CertificatesPresent
         THEN /\ Calls("write_certificates")
                   = <<[call |-> "write_certificates", ca |-> ca,
                        client_cert |-> "cert:" \o ApiserverSubject,
                        client_key |-> "key:" \o ApiserverSubject,
                        server_cert |-> "cert:" \o PublicAddress,
                        server_key |-> "key:" \o PublicAddress]>>
              /\ ~Reported(WaitingCertificates)
         ELSE /\ Calls("write_certificates") = <<>>
              /\ Reported(WaitingCertificates)

\* a pass has run with the CA, the client certificate and a server
\* certificate of another common name only
CertificateWriteGatedWitness ==
    /\ pc = "done"
    /\ Truthy(ca)
    /\ ApiserverSubject \in clientCerts
    /\ serverCerts = {StaleAddress}
    /\ Calls("write_certificates") = <<>>

\* ----------------------------------------------------------------- C8
\* C8: the status a pass leaves is the last one it added.  A pass without the
\* certificates relation, with etcd ready and the cluster name resolved,
\* adds the Blocked status first and leaves Waiting for certificates, which
\* create_kubeconfigs adds after it.
LastStatusWins ==
    (pc = "done" /\ ~certRel /\ etcdReady /\ Truthy(PeerName))
      => /\ reports[1] = BlockedCertificates
         /\ Len(reports) >= 3
         /\ Visible = reports[Len(reports)]
         /\ Visible = WaitingCertificates
         /\ Visible.kind # "blocked"
         /\ Len(Calls("write_etcd_client_credentials")) = 1
         /\ Len(Calls("configure_apiserver")) = 1
         /\ Len(Calls("configure_controller_manager")) = 1

\* such a pass on the leader
LastStatusWinsWitness ==
    /\ PassDone(leader)
    /\ ~certRel
    /\ etcdReady
    /\ Truthy(PeerName)
    /\ reports = <<BlockedCertificates, WaitingCertificates, WaitingCertificates>>

\* ----------------------------------------------------------------- C9
\* C9: a finished pass has entered every step once, in the order of
\* reconcile, whatever the steps reported; and a pass can always run: no
\* state of the environment keeps reconcile from returning.
AllStepsInOrder ==
    /\ pc = "done" => entered = StepOrder
    /\ pc = "idle" => \A u \in Units : ENABLED Reconcile(u)

\* a pass in which both relations were missing and the unit had to wait for
\* the leader has finished
AllStepsInOrderWitness ==
    /\ pc = "done"
    /\ entered = StepOrder
    /\ Reported(BlockedCertificates)
    /\ Reported(BlockedEtcd)
    /\ Reported(WaitingKeyFromLeader)
    /\ Reported(WaitingClusterName)

\* ---------------------------------------------------------------- C10
\* the kubeconfig files create_kubeconfigs writes
KubeconfigDests ==
    {RootKubeconfig, UbuntuKubeconfig, PublicKubeconfig, ControllerManagerKubeconfig,
     SchedulerKubeconfig, KubeletKubeconfig, ProxyKubeconfig}

\* the pass of unit u has finished with no status added and everything
\* written
CleanPass(u) ==
    /\ PassDone(u)
    /\ reports = <<>>
    /\ Len(Calls("write_certificates")) = 1
    /\ Len(Calls("write_etcd_client_credentials")) = 1
    /\ Len(Calls("write_service_account_key")) = 1
    /\ {c.dest : c \in Range(Calls("create_kubeconfig"))} = KubeconfigDests
    /\ Len(Calls("configure_controller_manager")) = 1

\* The relations are there and complete, and some unit is the leader.
InitLive ==
    /\ leader \in Units
    /\ certRel = TRUE
    /\ ca = CAValue
    /\ clientCerts = {ApiserverSubject}
    /\ serverCerts \in {{PublicAddress}, ServerCNs}
    /\ etcdRel = TRUE
    /\ etcdReady = TRUE
    /\ peer = [k \in PeerKeys |-> None]
    /\ legacy \in LegacyStores
    /\ rootConfig \in {[u \in Units |-> exists] : exists \in BOOLEAN}
    /\ cur = NoUnit
    /\ pc = "idle"
    /\ entered = <<>>
    /\ reports = <<>>
    /\ log = <<>>
    /\ nameWrites = 0
    /\ leaderRan = FALSE

\* the pass the leader-elected event starts on the unit that is the leader
LeaderReconcile(u) == IsLeader(u) /\ Reconcile(u)

\* Leadership moves from unit to unit and is never vacant.
NextLive ==
    \/ \E u \in Units : Reconcile(u)
    \/ Return
    \/ \E l \in Units : SetLeader(l)

\* Events keep firing on every unit, a unit that holds leadership gets to
\* run a pass while it holds it, and a handler that was called returns.
SpecLive ==
    /\ InitLive
    /\ [][NextLive]_vars
    /\ \A u \in Units : SF_vars(Reconcile(u))
    /\ \A u \in Units : SF_vars(LeaderReconcile(u))
    /\ WF_vars(Return)

\* C10: with the relations complete and a leader, every unit keeps reaching
\* the end of a pass that added no status and wrote everything; a pass is
\* never kept from running to its end.
EveryUnitConverges ==
    /\ \A u \in Units : []<>CleanPass(u)
    /\ [](pc = "idle" => \A u \in Units : ENABLED Reconcile(u))

\* a unit that is not the leader has finished such a pass
EveryUnitConvergesWitness ==
    /\ pc = "done"
    /\ ~IsLeader(cur)
    /\ CleanPass(cur)

\* ------------------------------------------- the settled deployment
\* The deployment once the leader has moved the old cluster tag and key to
\* the peer data: the steps that read neither peer data nor leader data run
\* against every state of the relations, of leadership and of the units'
\* files.
InitSettled ==
    /\ leader \in Units \cup {NoUnit}
    /\ certRel = FALSE
    /\ ca = None
    /\ clientCerts = {}
    /\ serverCerts = {}
    /\ etcdRel = FALSE
    /\ etcdReady = FALSE
    /\ peer = [k \in PeerKeys |->
                 IF k = "cluster-name" THEN LegacyValue(ClusterTagKey)
                 ELSE LegacyValue(LegacyKeyPath)]
    /\ legacy = [k \in LegacyKeys |-> None]
    /\ rootConfig \in [Units -> BOOLEAN]
    /\ cur = NoUnit
    /\ pc = "idle"
    /\ entered = <<>>
    /\ reports = <<>>
    /\ log = <<>>
    /\ nameWrites = 1
    /\ leaderRan = TRUE

NextSettled ==
    \/ \E u \in Units : Reconcile(u)
    \/ Return
    \/ \E l \in Units \cup {NoUnit} : SetLeader(l)
    \/ CertRelationJoined
    \/ CertRelationBroken
    \/ PublishCA
    \/ \E name \in ClientSubjects : IssueClientCert(name)
    \/ \E name \in ServerCNs : IssueServerCert(name)
    \/ EtcdRelationJoined
    \/ EtcdBecomesReady
    \/ EtcdRelationBroken

SpecSettled == InitSettled /\ [][NextSettled]_vars

\* ---------------------------------------------- reading the kubeconfigs
\* the tokens create_token returned in a sequence of calls
Minted(calls) ==
    {c.ret : c \in Range(SelectSeq(calls, LAMBDA c : c.call = "create_token"))}

\* the create_kubeconfig calls among them, and those made with a token that
\* create_token did not return: the writes of the bootstrap branch
KubeconfigWrites(calls) == SelectSeq(calls, LAMBDA c : c.call = "create_kubeconfig")
BootstrapWrites(calls) ==
    SelectSeq(calls, LAMBDA c : c.call = "create_kubeconfig" /\ c.token \notin Minted(calls))
AdminWrites(calls) ==
    SelectSeq(calls, LAMBDA c : c.call = "create_kubeconfig" /\ c.token \in Minted(calls)
                                 /\ c.token.uid = "admin")

\* both gates of create_kubeconfigs pass
KubeconfigGatesPass == Truthy(ca) /\ etcdReady

\* ---------------------------------------------------------------- C11
\* C11: a pass writes the bootstrap config exactly when /root/.kube/config
\* was absent on the unit and both gates pass, once, to that file; the file
\* then exists and a pass never removes it, so no later pass writes the
\* bootstrap config again; and every pass in which both gates pass mints one
\* admin token and writes it to the three admin destinations.
BootstrapOnce ==
    [][PassBegins
         => /\ BootstrapWrites(log') # <<>>
                 <=> (~rootConfig[cur'] /\ KubeconfigGatesPass)
            /\ Len(BootstrapWrites(log')) <= 1
            /\ \A i \in 1..Len(BootstrapWrites(log')) :
                 /\ BootstrapWrites(log')[i].dest = RootKubeconfig
                 /\ KubeconfigWrites(log')[1] = BootstrapWrites(log')[i]
            /\ rootConfig[cur'] => rootConfig'[cur']
            /\ \A v \in Units \ {cur'} : rootConfig'[v] = rootConfig[v]
            /\ KubeconfigGatesPass
                 => /\ rootConfig'[cur']
                    /\ Cardinality({tk \in Minted(log') : tk.uid = "admin"}) = 1
                    /\ [i \in 1..Len(AdminWrites(log')) |-> AdminWrites(log')[i].dest]
                         = <<RootKubeconfig, UbuntuKubeconfig, PublicKubeconfig>>
      ]_vars

\* a pass has gone through both gates on a unit where the file was there: it
\* has written the seven files and no bootstrap config
BootstrapOnceWitness ==
    /\ pc = "done"
    /\ KubeconfigGatesPass
    /\ rootConfig[cur]
    /\ BootstrapWrites(log) = <<>>
    /\ Len(KubeconfigWrites(log)) = 7
    /\ Len(AdminWrites(log)) = 3

\* ---------------------------------------------------------------- C12
\* what the file dest holds after the calls: what the last write to it gave
Written(calls, dest) ==
    SelectSeq(calls, LAMBDA c : c.call = "create_kubeconfig" /\ c.dest = dest)
LastWrite(calls, dest) == Written(calls, dest)[Len(Written(calls, dest))]

ComponentDests ==
    {ControllerManagerKubeconfig, SchedulerKubeconfig, KubeletKubeconfig, ProxyKubeconfig}

\* the calls of unit u wrote every destination: the admin files with one
\* minted admin token, the two local ones for the local endpoint and the
\* third for the public one; each component file once, for the local
\* endpoint, with a token minted for it alone
AllKubeconfigsWritten(calls, u) ==
    /\ {c.dest : c \in Range(KubeconfigWrites(calls))} = KubeconfigDests
    /\ \A c \in Range(KubeconfigWrites(calls)) : c.ca = ca
    /\ Len(SelectSeq(calls, LAMBDA c : c.call = "create_token")) = 5
    /\ Cardinality(Minted(calls)) = 5
    /\ LET admin == LastWrite(calls, RootKubeconfig) IN
         /\ admin.token \in Minted(calls)
         /\ admin.token.uid = "admin"
         /\ admin.server = LocalServer
         /\ LastWrite(calls, UbuntuKubeconfig) = [admin EXCEPT !.dest = UbuntuKubeconfig]
         /\ LastWrite(calls, PublicKubeconfig)
              = [admin EXCEPT !.dest = PublicKubeconfig, !.server = PublicServer]
         /\ \A d \in ComponentDests :
              /\ Len(Written(calls, d)) = 1
              /\ LastWrite(calls, d).server = LocalServer
              /\ LastWrite(calls, d).token \in Minted(calls)
              /\ LastWrite(calls, d).token # admin.token
              /\ \A d2 \in ComponentDests \ {d} :
                   LastWrite(calls, d2).token # LastWrite(calls, d).token
    /\ LastWrite(calls, ControllerManagerKubeconfig).token.uid = "kube-controller-manager"
    /\ LastWrite(calls, SchedulerKubeconfig).token.uid = "system:kube-scheduler"
    /\ LastWrite(calls, KubeletKubeconfig).token.uid = UnitName(u)
    /\ LastWrite(calls, KubeletKubeconfig).token.username
         = <<"system:node:">> \o Lower(NodeName(u))
    /\ LastWrite(calls, ProxyKubeconfig).token.uid = "kube-proxy"

\* C12: with the CA absent or etcd not ready create_kubeconfigs calls
\* nothing (no file written, no token minted or generated) and adds the one
\* Waiting status of the gate that failed; with both there it adds no status
\* and writes every destination.  A finished pass shows the same: no
\* kubeconfig and no token unless both gates passed, every destination when
\* they did.
KubeconfigsGated ==
    /\ pc = "idle"
         => \A u \in Units, e \in Streams :
              LET r == create_kubeconfigs(u, PassState(u), e) IN
              IF ~Truthy(ca)
              THEN r.log = <<>> /\ r.reports = <<WaitingCertificates>>
                     /\ r.root = rootConfig[u]
              ELSE IF ~etcdReady
              THEN r.log = <<>> /\ r.reports = <<WaitingEtcd>> /\ r.root = rootConfig[u]
              ELSE r.reports = <<>> /\ AllKubeconfigsWritten(r.log, u) /\ r.root
    /\ pc = "done"
         => IF KubeconfigGatesPass
            THEN AllKubeconfigsWritten(log, cur)
            ELSE /\ KubeconfigWrites(log) = <<>>
                 /\ Calls("create_token") = <<>>
                 /\ IF ~Truthy(ca) THEN Reported(WaitingCertificates)
                    ELSE Reported(WaitingEtcd)

\* a pass has gone through both gates on a unit where the file was absent:
\* eight writes, the bootstrap config first, and five tokens minted
KubeconfigsGatedWitness ==
    /\ pc = "done"
    /\ KubeconfigGatesPass
    /\ Len(KubeconfigWrites(log)) = 8
    /\ Len(BootstrapWrites(log)) = 1
    /\ Len(Calls("create_token")) = 5

\* ---------------------------------------------------------------- C13
\* the CA, server and user fields the file dest holds after the calls, None
\* when they did not write it; a write gives the file all its fields
FileFields(calls, dest) ==
    IF Written(calls, dest) = <<>> THEN None
    ELSE <<LastWrite(calls, dest).ca, LastWrite(calls, dest).server,
           LastWrite(calls, dest).user>>

\* the user create_kubeconfigs names in the file dest
UserOf(dest) ==
    IF dest = ControllerManagerKubeconfig THEN "kube-controller-manager"
    ELSE IF dest = SchedulerKubeconfig THEN "kube-scheduler"
    ELSE IF dest = KubeletKubeconfig THEN "kubelet"
    ELSE IF dest = ProxyKubeconfig THEN "kube-proxy"
    ELSE "admin"

\* C13: when a pass on a unit has finished, the pass that follows it on that
\* unit with nothing changed in between leaves every kubeconfig destination
\* with the CA, server and user fields the first pass left it with, whatever
\* tokens the two passes drew.  Every write gives the file the CA of the
\* pass, the server and the user of the destination, so that passes with the
\* same CA and address can differ in the token only.
KubeconfigIdempotent ==
    pc = "done"
      => /\ \A s2 \in reconcile(cur, PassState(cur)) :
              \A d \in KubeconfigDests : FileFields(s2.log, d) = FileFields(log, d)
         /\ \A c \in Range(KubeconfigWrites(log)) :
              /\ c.ca = ca
              /\ c.server = (IF c.dest = PublicKubeconfig THEN PublicServer ELSE LocalServer)
              /\ c.user = UserOf(c.dest)

\* a pass has bootstrapped and written the seven files, and the pass that
\* follows can write each of them with another token
KubeconfigIdempotentWitness ==
    /\ pc = "done"
    /\ Len(BootstrapWrites(log)) = 1
    /\ \E s2 \in reconcile(cur, PassState(cur)) :
         \A d \in KubeconfigDests :
           /\ FileFields(s2.log, d) = FileFields(log, d)
           /\ FileFields(s2.log, d) # None
           /\ LastWrite(s2.log, d).token # LastWrite(log, d).token

\* ---------------------------------------------------------------- C14
\* the two requests of a pass
ClientRequest == [call |-> "request_client_cert", cn |-> ApiserverSubject]
ServerRequested(c) ==
    /\ c.cn = PublicAddress
    /\ Range(c.sans) = Range(SansList(PublicAddress))

\* C14: without the certificates relation request_certificates calls nothing
\* and adds the Blocked status; with it the step adds no status and makes
\* two calls, the client request for system:kube-apiserver and the server
\* request for the public address with the SANs, also when the certificates
\* asked for are already there.  A finished pass holds these two requests
\* and no others, or none and the Blocked status as its first.
RequestsFireAndForget ==
    /\ pc = "idle"
         => \A u \in Units :
              LET r == request_certificates(PassState(u)) IN
              IF ~certRel
              THEN r.log = <<>> /\ r.reports = <<BlockedCertificates>>
              ELSE /\ r.reports = <<>>
                   /\ Len(r.log) = 2
                   /\ r.log[1] = ClientRequest
                   /\ r.log[2].call = "request_server_cert"
                   /\ ServerRequested(r.log[2])
    /\ pc = "done"
         => IF ~certRel
            THEN /\ Calls("request_client_cert") = <<>>
                 /\ Calls("request_server_cert") = <<>>
                 /\ reports[1] = BlockedCertificates
            ELSE /\ Calls("request_client_cert") = <<ClientRequest>>
                 /\ Len(Calls("request_server_cert")) = 1
                 /\ ServerRequested(Calls("request_server_cert")[1])
                 /\ ~Reported(BlockedCertificates)

\* a pass has made the two requests with every certificate already issued,
\* and has added no status
RequestsFireAndForgetWitness ==
    /\ pc = "done"
    /\ certRel
    /\ CertificatesPresent
    /\ Len(Calls("request_client_cert")) = 1
    /\ Len(Calls("request_server_cert")) = 1
    /\ Len(Calls("write_certificates")) = 1

\* ---------------------------------------------------------------- C15
\* the one call that writes the etcd client credentials
EtcdCredentialsWrite ==
    [call |-> "write_etcd_client_credentials", ca |-> EtcdCreds.client_ca,
     cert |-> EtcdCreds.client_cert, key |-> EtcdCreds.client_key]

\* C15: write_etcd_client_credentials adds the Blocked status and writes
\* nothing without the etcd relation, adds Waiting for etcd and writes
\* nothing with a relation that is not ready, and with a ready relation
\* writes the CA, the client certificate and the client key and adds no
\* status.  A finished pass holds the write exactly when the relation was
\* ready, the Blocked status exactly when there was no relation.
EtcdCredentialsGated ==
    /\ pc = "idle"
         => \A u \in Units :
              LET r == write_etcd_client_credentials(PassState(u)) IN
              IF ~etcdRel THEN r.log = <<>> /\ r.reports = <<BlockedEtcd>>
              ELSE IF ~etcdReady THEN r.log = <<>> /\ r.reports = <<WaitingEtcd>>
              ELSE r.log = <<EtcdCredentialsWrite>> /\ r.reports = <<>>
    /\ pc = "done"
         => /\ Reported(BlockedEtcd) <=> ~etcdRel
            /\ Calls("write_etcd_client_credentials")
                 = IF etcdRel /\ etcdReady THEN <<EtcdCredentialsWrite>> ELSE <<>>
            /\ (etcdRel /\ ~etcdReady) => Reported(WaitingEtcd)
            /\ (etcdRel /\ etcdReady) => ~Reported(WaitingEtcd)

\* a pass has run with the etcd relation joined and not ready
EtcdCredentialsGatedWitness ==
    /\ pc = "done"
    /\ etcdRel
    /\ ~etcdReady
    /\ Reported(WaitingEtcd)
    /\ ~Reported(BlockedEtcd)
    /\ Calls("write_etcd_client_credentials") = <<>>

\* ---------------------------------------------------------------- C16
\* the lists of at most MaxInputs elements of S
ListsOver(S) == UNION {[1..k -> S] : k \in 0..MaxInputs}

\* a configuration text: the words with the separator between them
Join(words, sep) ==
    [i \in 1..(2 * Len(words) - Min(Len(words), 1)) |->
       IF i % 2 = 1 THEN words[(i + 1) \div 2] ELSE sep]

\* what the unit can be given: bind and ingress addresses, the service CIDRs
\* (at least one) and the extra SANs of the configuration
BindInputs == ListsOver(Range(BindAddresses))
IngressInputs == ListsOver(Range(IngressAddresses))
CidrInputs == ListsOver(Range(Split(ServiceCidrConfig, ","))) \ {<<>>}
ExtraInputs == ListsOver(Range(Split(ExtraSansConfig, " ")))

\* the names and addresses the server certificate has to be valid for, from
\* the elements of the inputs and not from their order
ExpectedSans(common_name, bind_addrs, ingress_addresses, cidrs, extra) ==
    {common_name, "127.0.0.1", Hostname, Fqdn, "kubernetes",
     "kubernetes." \o DnsDomain, "kubernetes.default", "kubernetes.default.svc",
     "kubernetes.default.svc." \o DnsDomain}
    \cup Range(bind_addrs)
    \cup {Exploded(a) : a \in Range(ingress_addresses)}
    \cup {ServiceAddress(c) : c \in Range(cidrs)}
    \cup Range(extra)

NoElementTwice(list) == \A i, j \in 1..Len(list) : list[i] = list[j] => i = j

\* for every input, in every order and with every repetition
SansCompleteOnInputs ==
    \A bind_addrs \in BindInputs, ingress_addresses \in IngressInputs,
       cidrs \in CidrInputs, extra \in ExtraInputs :
      LET sans == ListSet(SansOf(PublicAddress, bind_addrs, ingress_addresses,
                                 Join(cidrs, ","), Join(extra, " ")))
      IN  /\ NoElementTwice(sans)
          /\ Range(sans)
               = ExpectedSans(PublicAddress, bind_addrs, ingress_addresses, cidrs, extra)

\* C16: the SAN list of the server-certificate request holds the public
\* address, 127.0.0.1, hostname and FQDN, the five kubernetes names, every
\* bind address, every ingress address (written out in full), the service
\* address of every service CIDR and every extra SAN, and nothing else; no
\* element twice; and its elements depend on the elements of the inputs
\* only, not on their order.  So for every input, and so in the request of
\* every finished pass.
SansCompleteAndDistinct ==
    /\ SansCompleteOnInputs
    /\ (pc = "done" /\ certRel)
         => /\ Len(Calls("request_server_cert")) = 1
            /\ NoElementTwice(Calls("request_server_cert")[1].sans)
            /\ Range(Calls("request_server_cert")[1].sans)
                 = ExpectedSans(PublicAddress, BindAddresses, IngressAddresses,
                                Split(ServiceCidrConfig, ","), Split(ExtraSansConfig, " "))

\* a pass has requested the server certificate, the list it built holding
\* the public address more than once and the list it passed holding it once
SansCompleteAndDistinctWitness ==
    /\ pc = "done"
    /\ certRel
    /\ Len(Calls("request_server_cert")) = 1
    /\ Len(Calls("request_server_cert")[1].sans) < Len(SansList(PublicAddress))
    /\ Len(SelectSeq(SansList(PublicAddress), LAMBDA n : n = PublicAddress)) > 1
    /\ Len(SelectSeq(Calls("request_server_cert")[1].sans, LAMBDA n : n = PublicAddress)) = 1
    /\ "10.152.183.1" \in Range(Calls("request_server_cert")[1].sans)
    /\ "foo.example" \in Range(Calls("request_server_cert")[1].sans)

\* ---------------------------------------------------------------- C17
\* the peer data field a leader data entry migrates to
PeerField(k) == IF k = ClusterTagKey THEN "cluster-name" ELSE "service-account-key"

\* C17: a pass of the leader that starts with a peer data field empty and
\* its leader data entry set ends with the field holding exactly that value
\* and the entry cleared, having generated nothing for it; the resolver
\* returns the value.  No step takes a value out of leader data without the
\* peer data field holding it afterwards, and a field that holds a value
\* keeps it: a value that was in leader data is still there or is in the
\* peer data.
MigrationPreserves ==
    [][\A k \in LegacyKeys :
         /\ (PassBegins /\ IsLeader(cur') /\ ~Truthy(peer[PeerField(k)])
               /\ Truthy(legacy[k]))
              => /\ peer'[PeerField(k)] = legacy[k]
                 /\ legacy'[k] = None
                 /\ IF k = ClusterTagKey
                    THEN /\ Len(Calls("token_generator")') = Len(BootstrapWrites(log'))
                         /\ Calls("configure_controller_manager")'[1].cluster_name
                              = legacy[k]
                         /\ \A token \in Tokens :
                              LET r == get_cluster_name(cur', PassState(cur'), token) IN
                              /\ r.ret = legacy[k]
                              /\ r.s.peer["cluster-name"] = legacy[k]
                              /\ r.s.legacy[k] = None
                              /\ r.s.log = <<>>
                    ELSE /\ Calls("create_service_account_key")' = <<>>
                         /\ \A fresh \in FreshKeys :
                              LET r == write_service_account_key(cur', PassState(cur'), fresh)
                              IN  /\ r.peer["service-account-key"] = legacy[k]
                                  /\ r.legacy[k] = None
                                  /\ r.log = <<>>
         /\ Truthy(legacy[k])
              => \/ legacy'[k] = legacy[k]
                 \/ peer'[PeerField(k)] = legacy[k] /\ legacy'[k] = None
         /\ Truthy(peer[PeerField(k)]) => peer'[PeerField(k)] = peer[PeerField(k)]
      ]_vars

\* a leader's pass has taken the key from leader data, the cluster name in
\* the peer data being the old tag as well
MigrationPreservesWitness ==
    /\ PassDone(leader)
    /\ PeerKey = LegacyValue(LegacyKeyPath)
    /\ legacy[LegacyKeyPath] = None
    /\ Calls("write_service_account_key") = <<>>
    /\ Calls("create_service_account_key") = <<>>
    /\ PeerName = LegacyValue(ClusterTagKey)
    /\ legacy[ClusterTagKey] = None

\* ---------------------------------------------------------------- C18
\* C18: configure_apiserver configures the API server when etcd is ready and
\* otherwise adds Waiting for etcd and configures nothing;
\* configure_controller_manager configures with a non-empty cluster name,
\* the one the peer data holds when the step ends, and otherwise adds
\* Waiting for cluster name and configures nothing; configure_scheduler
\* configures in every pass.
ConfigurationGuarded ==
    /\ pc = "idle"
         => \A u \in Units :
              /\ LET r == configure_apiserver(PassState(u)) IN
                   IF etcdReady
                   THEN r.reports = <<>> /\ Len(r.log) = 1
                          /\ r.log[1].call = "configure_apiserver"
                   ELSE r.reports = <<WaitingEtcd>> /\ r.log = <<>>
              /\ \A token \in Tokens :
                   LET r == configure_controller_manager(u, PassState(u), token)
                       configured ==
                           SelectSeq(r.log, LAMBDA c : c.call = "configure_controller_manager")
                   IN  IF Truthy(r.peer["cluster-name"])
                       THEN /\ Len(configured) = 1
                            /\ configured[1].cluster_name = r.peer["cluster-name"]
                            /\ r.reports = <<>>
                       ELSE /\ configured = <<>>
                            /\ ~IsLeader(u)
                            /\ r.reports
                                 = <<WaitingClusterNameFromLeader, WaitingClusterName>>
              /\ LET r == configure_scheduler(PassState(u)) IN
                   r.reports = <<>> /\ Len(r.log) = 1 /\ r.log[1].call = "configure_scheduler"
    /\ pc = "done"
         => /\ Len(Calls("configure_apiserver")) = (IF etcdReady THEN 1 ELSE 0)
            /\ ~etcdReady => Reported(WaitingEtcd)
            /\ IF Truthy(PeerName)
               THEN /\ Len(Calls("configure_controller_manager")) = 1
                    /\ Calls("configure_controller_manager")[1].cluster_name = PeerName
                    /\ ~Reported(WaitingClusterName)
               ELSE /\ Calls("configure_controller_manager") = <<>>
                    /\ reports[Len(reports)] = WaitingClusterName
            /\ Len(Calls("configure_scheduler")) = 1
            /\ log[Len(log)].call = "configure_scheduler"

\* a pass has configured the scheduler and nothing else: etcd was not ready
\* and the unit had no cluster name
ConfigurationGuardedWitness ==
    /\ pc = "done"
    /\ ~etcdReady
    /\ ~Truthy(PeerName)
    /\ Calls("configure_apiserver") = <<>>
    /\ Calls("configure_controller_manager") = <<>>
    /\ Len(Calls("configure_scheduler")) = 1

\* ---------------------------------------------------------------- C19
\* a status st added by the pass is followed in it by the status later
FollowedBy(st, later) ==
    \A i \in 1..Len(reports) :
      reports[i] = st => \E j \in (i + 1)..Len(reports) : reports[j] = later

\* C19: without the certificates relation there is no CA, and without the
\* etcd relation etcd is not ready; so in a finished pass the Blocked status
\* of request_certificates is followed by Waiting for certificates, the
\* Blocked status of write_etcd_client_credentials by Waiting for etcd, and
\* the last status added, the one left visible, is never a Blocked one.
NoBlockedVisible ==
    /\ ~certRel => ~Truthy(ca)
    /\ ~etcdRel => ~etcdReady
    /\ pc = "done"
         => /\ Reported(BlockedCertificates) <=> ~certRel
            /\ Reported(BlockedEtcd) <=> ~etcdRel
            /\ FollowedBy(BlockedCertificates, WaitingCertificates)
            /\ FollowedBy(BlockedEtcd, WaitingEtcd)
            /\ \A i \in 1..Len(reports) :
                 reports[i].kind = "blocked" => i < Len(reports)
            /\ Visible.kind # "blocked"

\* a pass has added both Blocked statuses and left a Waiting one
NoBlockedVisibleWitness ==
    /\ pc = "done"
    /\ Reported(BlockedCertificates)
    /\ Reported(BlockedEtcd)
    /\ Visible.kind = "waiting"
    /\ Len(Calls("configure_controller_manager")) = 1

\* ---------------------------------------------------------------- C20
\* everything a pass on unit u needs not to add a status
NothingMissing(u) ==
    /\ certRel
    /\ CertificatesPresent
    /\ etcdRel
    /\ etcdReady
    /\ IsLeader(u) \/ (Truthy(PeerName) /\ Truthy(PeerKey))

\* C20: a finished pass has added no status, and so leaves Active, exactly
\* when the certificates relation, the CA and both certificates, and the
\* ready etcd relation were there and the unit was the leader or found the
\* cluster name and the key in the peer data; and every pass starts with no
\* status added, whatever the pass before it left.
CleanPassIff ==
    /\ pc = "done"
         => /\ reports = <<>> <=> NothingMissing(cur)
            /\ Visible = Active <=> NothingMissing(cur)
            /\ ~IsLeader(cur)
                 => /\ Reported(WaitingKeyFromLeader) <=> ~Truthy(PeerKey)
                    /\ Reported(WaitingClusterNameFromLeader) <=> ~Truthy(PeerName)
    /\ \A u \in Units : PassState(u).reports = <<>>

\* a leader's pass has generated the key and the cluster name and added no
\* status
CleanPassIffWitness ==
    /\ PassDone(leader)
    /\ reports = <<>>
    /\ Visible = Active
    /\ Len(Calls("create_service_account_key")) = 1
    /\ nameWrites = 1
    /\ PeerName # LegacyValue(ClusterTagKey)

====
